---- MODULE Spec2Model ----
(***************************************************************************)
(* A model of package log (src/log.go): a leveled, labeled, optionally     *)
(* colored logger layered on the standard library's log.Logger.            *)
(*                                                                         *)
(* Go strings are modelled as sequences of characters (one-character TLA+  *)
(* strings), so that concatenation, formatting and the trailing-newline    *)
(* test of the standard logger are computed, not assumed.  The values the  *)
(* environment supplies (the date, the time, the file position of the      *)
(* caller) are single opaque elements of such a sequence.                  *)
(***************************************************************************)
EXTENDS Integers, Sequences, FiniteSets, TLC

(***************************************************************************)
(* Bounds of the model.                                                    *)
(***************************************************************************)
NThreads == 2
MaxCalls == 2
MaxNewCalls == 1
MaxSinkCalls == 3

Threads == 1..NThreads

(***************************************************************************)
(* Flags, log.go:15-34.                                                    *)
(***************************************************************************)
Ldate == 1
Ltime == 2
Lmicroseconds == 4
Llongfile == 8
Lshortfile == 16
LUTC == 32
Llabel == 64
Lcolor == 128
LstdFlags == Ldate + Ltime

\* flag&bit != 0 for a single-bit mask and a non-negative flag word
HasBit(flag, bit) == (flag \div bit) % 2 = 1

(***************************************************************************)
(* Log levels, log.go:36-45.                                               *)
(***************************************************************************)
LevelFatal == 0
LevelPanic == 1
LevelError == 2
LevelWarn == 3
LevelInfo == 4
LevelDebug == 5
LevelDefault == LevelError

(***************************************************************************)
(* ANSI colors and the escape sequence, log.go:47-59.                      *)
(***************************************************************************)
colorNone == 0
colorRed == 31
colorGreen == 32
colorYellow == 33
colorBlue == 36
colorWhite == 37

\* the escape character \033, one character of the string
ESC == "\\033"

Digit(d) == <<"0", "1", "2", "3", "4", "5", "6", "7", "8", "9">>[d + 1]

\* the %d verb of fmt.Sprintf for a non-negative integer
RECURSIVE Dec(_)
Dec(n) == IF n < 10 THEN <<Digit(n)>> ELSE Dec(n \div 10) \o <<Digit(n % 10)>>

\* fmt.Sprintf(escSeq, c) with escSeq = "\033[%dm"
escSeq(c) == <<ESC, "[">> \o Dec(c) \o <<"m">>

\* labelMap, indexed by level (Go slices are 0-based)
labelMap(lvl) ==
  << <<"F", "A", "T", "A", "L">>,
     <<"P", "A", "N", "I", "C">>,
     <<"E", "R", "R", "O", "R">>,
     <<"W", "A", "R", "N", " ">>,
     <<"I", "N", "F", "O", " ">>,
     <<"D", "E", "B", "U", "G">> >>[lvl + 1]

\* colorMap, indexed by level
colorMap(lvl) ==
  <<colorRed, colorRed, colorRed, colorYellow, colorBlue, colorGreen>>[lvl + 1]


(***************************************************************************)
(* Message building: fmt.Sprint, fmt.Sprintln and fmt.Sprintf applied to   *)
(* string operands (log.go:131, 139, 147 and alike).                       *)
(***************************************************************************)
\* fmt.Sprint: string operands are concatenated; a space is added only
\* between operands when neither is a string
RECURSIVE Sprint(_)
Sprint(v) == IF v = <<>> THEN <<>> ELSE Head(v) \o Sprint(Tail(v))

\* the operands separated by single spaces
RECURSIVE Spaced(_)
Spaced(v) ==
  IF v = <<>> THEN <<>>
  ELSE IF Len(v) = 1 THEN Head(v)
  ELSE Head(v) \o <<" ">> \o Spaced(Tail(v))

\* fmt.Sprintln: spaces between operands, a newline appended
Sprintln(v) == Spaced(v) \o <<"\n">>

\* what fmt.Sprintf appends for operands no verb consumed
RECURSIVE ExtraList(_)
ExtraList(v) ==
  IF v = <<>> THEN <<>>
  ELSE <<"s", "t", "r", "i", "n", "g", "=">> \o Head(v)
       \o (IF Len(v) > 1 THEN <<",", " ">> ELSE <<>>) \o ExtraList(Tail(v))

Extra(v) == <<"%", "!", "(", "E", "X", "T", "R", "A", " ">> \o ExtraList(v) \o <<")">>

\* what fmt.Sprintf prints for a %s verb with no operand left
Missing == <<"%", "!", "s", "(", "M", "I", "S", "S", "I", "N", "G", ")">>

\* fmt.Sprintf for format strings whose only verb is %s
RECURSIVE Sprintf(_, _)
Sprintf(format, v) ==
  IF format = <<>> THEN (IF v = <<>> THEN <<>> ELSE Extra(v))
  ELSE IF Len(format) >= 2 /\ format[1] = "%" /\ format[2] = "s"
       THEN (IF v = <<>> THEN Missing ELSE Head(v))
            \o Sprintf(SubSeq(format, 3, Len(format)), IF v = <<>> THEN v ELSE Tail(v))
       ELSE <<Head(format)>> \o Sprintf(Tail(format), v)

\* the message of a logging call, by its variant
Message(o) ==
  CASE o.variant = "plain" -> Sprint(o.args)
    [] o.variant = "ln" -> Sprintln(o.args)
    [] o.variant = "f" -> Sprintf(o.str, o.args)


(***************************************************************************)
(* Logger.format's decoration of the message, log.go:108-118.              *)
(***************************************************************************)
\* a variant of formatText: the space after the label is left out
formatTextNoSpace(lvl, s, fl) ==
  IF HasBit(fl, Llabel)
  THEN IF HasBit(fl, Lcolor)
       THEN <<"[">> \o escSeq(colorMap(lvl)) \o labelMap(lvl) \o escSeq(colorNone)
            \o <<"]", " ">> \o escSeq(colorWhite) \o s \o escSeq(colorNone)
       ELSE <<"[">> \o labelMap(lvl) \o <<"]">> \o s
  ELSE s

\* a variant of formatText: the brackets are colored with the label
formatTextBracketsInside(lvl, s, fl) ==
  IF HasBit(fl, Llabel)
  THEN IF HasBit(fl, Lcolor)
       THEN escSeq(colorMap(lvl)) \o <<"[">> \o labelMap(lvl) \o <<"]">>
            \o escSeq(colorNone) \o <<" ">> \o escSeq(colorWhite) \o s
            \o escSeq(colorNone)
       ELSE <<"[">> \o labelMap(lvl) \o <<"]", " ">> \o s
  ELSE s

formatText(lvl, s, fl) ==
  IF HasBit(fl, Llabel)
  THEN IF HasBit(fl, Lcolor)
       THEN <<"[">> \o escSeq(colorMap(lvl)) \o labelMap(lvl) \o escSeq(colorNone)
            \o <<"]", " ">> \o escSeq(colorWhite) \o s \o escSeq(colorNone)
       ELSE <<"[">> \o labelMap(lvl) \o <<"]", " ">> \o s
  ELSE s

(***************************************************************************)
(* The standard library's log.Logger, the field l of Logger (log.go:88).   *)
(* It holds the writer, the prefix and its own copy of the flags under its *)
(* own mutex; Output builds prefix + header + text, ends it with a newline *)
(* when the text has none, and hands it to the writer in one Write call    *)
(* made while that mutex is held (log.go:14-34, 83-86).                    *)
(***************************************************************************)
\* the header the flags ask for; date, time and file position are opaque
\* values of the environment, written here as in the comment log.go:21-24
Header(fl) ==
  (IF HasBit(fl, Ldate) THEN <<"2009/01/23", " ">> ELSE <<>>)
  \o (IF HasBit(fl, Ltime) \/ HasBit(fl, Lmicroseconds)
      THEN <<"01:23:23">>
           \o (IF HasBit(fl, Lmicroseconds) THEN <<".123123">> ELSE <<>>)
           \o <<" ">>
      ELSE <<>>)
  \o (IF HasBit(fl, Lshortfile) THEN <<"d.go:23", ":", " ">>
      ELSE IF HasBit(fl, Llongfile) THEN <<"/a/b/c/d.go:23", ":", " ">>
      ELSE <<>>)

\* the bytes of one line
Line(prefix, fl, s) ==
  prefix \o Header(fl) \o s
  \o (IF s = <<>> \/ s[Len(s)] # "\n" THEN <<"\n">> ELSE <<>>)


(***************************************************************************)
(* The state.                                                              *)
(*   flag, level, mu   the fields of Logger (log.go:87-92); mu is 0 when   *)
(*                     free, else the thread that holds it                 *)
(*   gl                the field l, the standard library's logger:         *)
(*                     [mu, prefix, flag, out]                             *)
(*   sink              what each writer has received: the bytes each step  *)
(*                     of a Write call appended, tagged with the call      *)
(*   broken            the writers whose Write fails                       *)
(*   proc              the process: alive, or its exit status              *)
(*   pc, op, loc       each thread's position, current call and locals     *)
(*   ncalls            calls started so far                                *)
(*   lastSet           the argument of the latest write of each field      *)
(***************************************************************************)
VARIABLES flag, level, mu, gl, sink, broken, proc, pc, op, loc, ncalls, lastSet

vars == <<flag, level, mu, gl, sink, broken, proc, pc, op, loc, ncalls, lastSet>>

(***************************************************************************)
(* The inputs of the calls.                                                *)
(***************************************************************************)
Sinks == {"stderr", "buf"}
Prefixes == {<<>>, <<"p">>}
FlagArgs == {0, LstdFlags, Llabel, Lcolor, Llabel + Lcolor}
LevelArgs == (LevelFatal - 1)..(LevelDebug + 1)
Variants == {"plain", "ln", "f"}

\* each thread logs a message of its own
Msg(t) == << <<"x">>, <<"y">>, <<"z">>, <<"w">> >>[t]
ArgLists(t) == {<<Msg(t)>>}
FormatArg == <<"%", "s", "!">>

NoOp ==
  [kind |-> "none", sev |-> 0, variant |-> "plain", args |-> <<>>, n |-> 0,
   str |-> <<>>, w |-> "none", fn |-> "none"]

\* the 18 per-severity entry points, log.go:151-302 (381-532 for std)
LogOps(t) ==
  {[kind |-> "log", sev |-> s, variant |-> vr, args |-> a, n |-> 0,
    str |-> IF vr = "f" THEN FormatArg ELSE <<>>, w |-> "none", fn |-> "level"] :
     s \in LevelFatal..LevelDebug, vr \in Variants, a \in ArgLists(t)}

\* a variant of PrintOps: the three calls gated and labelled as Error, the
\* default threshold, so that they print on a Logger left as New made it
PrintOpsAsError(t) ==
  {[kind |-> "log", sev |-> LevelError, variant |-> vr, args |-> a, n |-> 0,
    str |-> IF vr = "f" THEN FormatArg ELSE <<>>, w |-> "none", fn |-> "Print"] :
     vr \in Variants, a \in ArgLists(t)}

\* Print, Println and Printf, log.go:127-149 (357-379 for std): the test and
\* the format call both name LevelInfo
PrintOps(t) ==
  {[kind |-> "log", sev |-> LevelInfo, variant |-> vr, args |-> a, n |-> 0,
    str |-> IF vr = "f" THEN FormatArg ELSE <<>>, w |-> "none", fn |-> "Print"] :
     vr \in Variants, a \in ArgLists(t)}

\* the configuration accessors and Output, log.go:103-125, 304-340
ConfigOps(t) ==
  {[NoOp EXCEPT !.kind = k] : k \in {"Flags", "Level", "Prefix"}}
  \cup {[NoOp EXCEPT !.kind = "SetFlags", !.n = f] : f \in FlagArgs}
  \cup {[NoOp EXCEPT !.kind = "SetLevel", !.n = v] : v \in LevelArgs}
  \cup {[NoOp EXCEPT !.kind = "SetPrefix", !.str = p] : p \in Prefixes}
  \cup {[NoOp EXCEPT !.kind = "SetOutput", !.w = w] : w \in Sinks}
  \cup {[NoOp EXCEPT !.kind = "Output", !.n = 2, !.str = Msg(t)]}

Ops(t) == LogOps(t) \cup PrintOps(t) \cup ConfigOps(t)

\* the calls of the runs that follow the writer: SetOutput, Error and Output
SinkOps(t) ==
  {o \in Ops(t) : \/ o.kind \in {"SetOutput", "Output"}
                  \/ /\ o.kind = "log" /\ o.fn = "level"
                     /\ o.sev = LevelError /\ o.variant = "plain"}

\* the calls a run may make, and how many, by the kind of run
Menu(run, t) == IF run = "sinks" THEN SinkOps(t) ELSE Ops(t)
Budget(run) ==
  CASE run = "all" -> MaxCalls
    [] run = "first" -> MaxNewCalls
    [] run = "sinks" -> MaxSinkCalls

NewLoc(id) ==
  [id |-> id, s |-> <<>>, decided |-> FALSE, emit |-> FALSE, text |-> <<>>,
   depth |-> 0, line |-> <<>>, w |-> "none", nwrite |-> 0, err |-> FALSE,
   v |-> 0, p |-> <<>>, payload |-> <<>>, panicking |-> FALSE,
   ret |-> "none", outcome |-> "none"]

(***************************************************************************)
(* New, log.go:94-101, and the standard logger, log.go:342-343.            *)
(***************************************************************************)
\* a variant of New: the threshold starts at Debug, every call emits
NewLevelDebug(out, prefix, fl) ==
  [l |-> [mu |-> 0, prefix |-> prefix, flag |-> fl, out |-> out],
   mu |-> 0, flag |-> fl, level |-> LevelDebug]

New(out, prefix, fl) ==
  [l |-> [mu |-> 0, prefix |-> prefix, flag |-> fl, out |-> out],
   mu |-> 0, flag |-> fl, level |-> LevelDefault]

\* the arguments of the New that makes the standard logger, log.go:343
StdArgs == [out |-> "stderr", prefix |-> <<>>, flag |-> LstdFlags]

std == New(StdArgs.out, StdArgs.prefix, StdArgs.flag)

\* the state once New(a.out, a.prefix, a.flag) has returned lg, the writers
\* in bad being those whose Write fails
InitWith(lg, a, bad) ==
  /\ flag = lg.flag
  /\ level = lg.level
  /\ mu = lg.mu
  /\ gl = lg.l
  /\ sink = [w \in Sinks |-> <<>>]
  /\ broken = bad
  /\ proc = [alive |-> TRUE, code |-> 0]
  /\ pc = [t \in Threads |-> "idle"]
  /\ op = [t \in Threads |-> NoOp]
  /\ loc = [t \in Threads |-> NewLoc(0)]
  /\ ncalls = 0
  /\ lastSet = [flag |-> a.flag, level |-> LevelDefault, prefix |-> a.prefix,
                out |-> a.out]

\* the arguments of New the model starts from, besides the standard logger
NewArgs ==
  {[out |-> "buf", prefix |-> <<"p">>, flag |-> Llabel],
   [out |-> "buf", prefix |-> <<>>, flag |-> Llabel + Lcolor]}

Init ==
  \/ InitWith(std, StdArgs, {})
  \/ \E a \in NewArgs : InitWith(New(a.out, a.prefix, a.flag), a, {})

\* New on every writer, prefix and flag value of the input sets
InitNew ==
  \E a \in [out : Sinks, prefix : Prefixes, flag : FlagArgs] :
     InitWith(New(a.out, a.prefix, a.flag), a, {})

\* the same Loggers as Init, on writers any of which may fail
InitFault ==
  \E bad \in SUBSET Sinks :
     \/ InitWith(std, StdArgs, bad)
     \/ \E a \in NewArgs : InitWith(New(a.out, a.prefix, a.flag), a, bad)


(***************************************************************************)
(* The steps of a call.  A thread calls when idle; the steps of different  *)
(* threads interleave.                                                     *)
(***************************************************************************)
Goto(t, where) == pc' = [pc EXCEPT ![t] = where]

\* the test `if level > LevelDebug` of SetLevel, log.go:326
InvalidLevel(v) == v > LevelDebug

\* the value of panic("invalid log level"), log.go:327
InvalidLevelMsg == <<"invalid log level">>

\* a variant of Emits: the comparison taken strictly
EmitsStrict(lvl, sev) == lvl > sev

\* the test `if l.level >= Level<S>` of the entry points, log.go:130 ... 299
Emits(lvl, sev) == lvl >= sev

\* a variant of AfterEmit: the process is ended only with the other end
\* of the call, as if os.Exit were deferred like the Unlock
AfterEmitNoExit(sev) == IF sev = LevelPanic THEN "panic" ELSE "unlock"

\* what follows the emit attempt: os.Exit(1) for Fatal (log.go:157), panic(s)
\* for Panic (log.go:185), the deferred Unlock for the others
AfterEmit(sev) ==
  IF sev = LevelFatal THEN "exit" ELSE IF sev = LevelPanic THEN "panic" ELSE "unlock"

\* a variant of Entry: SetLevel assigns without taking l.mu
EntrySetLevelNoLock(o) ==
  CASE o.kind \in {"log", "Flags", "SetFlags", "Level"} -> "lock"
    [] o.kind = "SetLevel" -> IF InvalidLevel(o.n) THEN "propagate" ELSE "setlevel"
    [] o.kind \in {"SetOutput", "SetPrefix", "Prefix"} -> "gl_cfg"
    [] o.kind = "Output" -> "gl_lock"

\* the first statement of each call
Entry(o) ==
  CASE o.kind \in {"log", "Flags", "SetFlags", "Level"} -> "lock"
    [] o.kind = "SetLevel" -> IF InvalidLevel(o.n) THEN "propagate" ELSE "lock"
    [] o.kind \in {"SetOutput", "SetPrefix", "Prefix"} -> "gl_cfg"
    [] o.kind = "Output" -> "gl_lock"

\* the statement reached once l.mu is held
Body(o) ==
  CASE o.kind = "log" -> "check"
    [] o.kind = "Flags" -> "flags"
    [] o.kind = "SetFlags" -> "setflags"
    [] o.kind = "Level" -> "level"
    [] o.kind = "SetLevel" -> "setlevel"

\* a variant of Output: the call depth is handed on as it came
OutputSameDepth(calldepth, s) == [calldepth |-> calldepth, s |-> s]

\* Logger.Output hands l.l.Output(calldepth+1, s), log.go:123-125 (353-355)
Output(calldepth, s) == [calldepth |-> calldepth + 1, s |-> s]

\* a variant of CallOf: SetLevel assigns l.level before its range check
CallOfAssignsFirst(t, run) ==
  /\ proc.alive
  /\ pc[t] = "idle"
  /\ ncalls < Budget(run)
  /\ \E o \in Menu(run, t) :
       /\ op' = [op EXCEPT ![t] = o]
       /\ loc' = [loc EXCEPT ![t] =
            IF o.kind = "SetLevel" /\ InvalidLevel(o.n)
            THEN [NewLoc(ncalls + 1) EXCEPT !.panicking = TRUE, !.payload = InvalidLevelMsg]
            ELSE IF o.kind = "Output"
            THEN [NewLoc(ncalls + 1) EXCEPT !.text = Output(o.n, o.str).s,
                                            !.depth = Output(o.n, o.str).calldepth]
            ELSE NewLoc(ncalls + 1)]
       /\ Goto(t, Entry(o))
  /\ ncalls' = ncalls + 1
  /\ level' = IF op'[t].kind = "SetLevel" /\ InvalidLevel(op'[t].n)
              THEN op'[t].n ELSE level
  /\ UNCHANGED <<flag, mu, gl, sink, broken, proc, lastSet>>

\* a thread enters a call; SetLevel's range check and Output's calldepth+1
\* touch only the arguments
CallOf(t, run) ==
  /\ proc.alive
  /\ pc[t] = "idle"
  /\ ncalls < Budget(run)
  /\ \E o \in Menu(run, t) :
       /\ op' = [op EXCEPT ![t] = o]
       /\ loc' = [loc EXCEPT ![t] =
            IF o.kind = "SetLevel" /\ InvalidLevel(o.n)
            THEN [NewLoc(ncalls + 1) EXCEPT !.panicking = TRUE, !.payload = InvalidLevelMsg]
            ELSE IF o.kind = "Output"
            THEN [NewLoc(ncalls + 1) EXCEPT !.text = Output(o.n, o.str).s,
                                            !.depth = Output(o.n, o.str).calldepth]
            ELSE NewLoc(ncalls + 1)]
       /\ Goto(t, Entry(o))
  /\ ncalls' = ncalls + 1
  /\ UNCHANGED <<flag, level, mu, gl, sink, broken, proc, lastSet>>

Call(t) == CallOf(t, "all")

\* the one call of the runs that start from every New
CallFirst(t) == CallOf(t, "first")

\* a call of the runs that follow the writer
CallSinks(t) == CallOf(t, "sinks")

\* l.mu.Lock()
Lock(t) ==
  /\ proc.alive
  /\ pc[t] = "lock"
  /\ mu = 0
  /\ mu' = t
  /\ Goto(t, Body(op[t]))
  /\ UNCHANGED <<flag, level, gl, sink, broken, proc, op, loc, ncalls, lastSet>>

\* the message is built and the threshold tested, log.go:181-182
Check(t) ==
  /\ proc.alive
  /\ pc[t] = "check"
  /\ loc' = [loc EXCEPT ![t] = [@ EXCEPT !.s = Message(op[t]), !.decided = TRUE,
                                         !.emit = Emits(level, op[t].sev)]]
  /\ Goto(t, IF Emits(level, op[t].sev) THEN "format" ELSE AfterEmit(op[t].sev))
  /\ UNCHANGED <<flag, level, mu, gl, sink, broken, proc, op, ncalls, lastSet>>

\* a variant of format: the color bit is cleared in l.flag once the message
\* is decorated
formatClearsColor(t) ==
  /\ proc.alive
  /\ pc[t] = "format"
  /\ loc' = [loc EXCEPT ![t] = [@ EXCEPT !.text = formatText(op[t].sev, loc[t].s, flag),
                                         !.depth = 3]]
  /\ flag' = IF HasBit(flag, Lcolor) THEN flag - Lcolor ELSE flag
  /\ Goto(t, "gl_lock")
  /\ UNCHANGED <<level, mu, gl, sink, broken, proc, op, ncalls, lastSet>>

\* Logger.format: decorate by l.flag and call l.l.Output(3, s), log.go:108-121
format(t) ==
  /\ proc.alive
  /\ pc[t] = "format"
  /\ loc' = [loc EXCEPT ![t] = [@ EXCEPT !.text = formatText(op[t].sev, loc[t].s, flag),
                                         !.depth = 3]]
  /\ Goto(t, "gl_lock")
  /\ UNCHANGED <<flag, level, mu, gl, sink, broken, proc, op, ncalls, lastSet>>


(***************************************************************************)
(* l.l.Output of the standard library, called at log.go:120 and 124: under *)
(* the standard logger's own mutex the line is built and handed to the     *)
(* writer in one Write call.  The writer takes the bytes of that call in   *)
(* two steps; nothing but the mutex keeps another Write from starting      *)
(* between them.                                                           *)
(***************************************************************************)
\* a variant of GlLock: the line is built and written without the mutex
GlLockNoMutex(t) ==
  /\ proc.alive
  /\ pc[t] = "gl_lock"
  /\ loc' = [loc EXCEPT ![t] = [@ EXCEPT !.line = Line(gl.prefix, gl.flag, loc[t].text)]]
  /\ Goto(t, "gl_write")
  /\ UNCHANGED <<flag, level, mu, gl, sink, broken, proc, op, ncalls, lastSet>>

GlLock(t) ==
  /\ proc.alive
  /\ pc[t] = "gl_lock"
  /\ gl.mu = 0
  /\ gl' = [gl EXCEPT !.mu = t]
  /\ loc' = [loc EXCEPT ![t] = [@ EXCEPT !.line = Line(gl.prefix, gl.flag, loc[t].text)]]
  /\ Goto(t, "gl_write")
  /\ UNCHANGED <<flag, level, mu, sink, broken, proc, op, ncalls, lastSet>>

HeadLen(line) == (Len(line) + 1) \div 2

\* l.out.Write(l.buf) starts: the writer fails, or takes the first bytes
GlWrite(t) ==
  /\ proc.alive
  /\ pc[t] = "gl_write"
  /\ IF gl.out \in broken
     THEN /\ loc' = [loc EXCEPT ![t] = [@ EXCEPT !.w = gl.out, !.nwrite = @ + 1,
                                                 !.err = TRUE]]
          /\ Goto(t, "gl_unlock")
          /\ UNCHANGED sink
     ELSE /\ sink' = [sink EXCEPT ![gl.out] =
                 Append(@, [id |-> loc[t].id, by |-> t, part |-> 1,
                            bytes |-> SubSeq(loc[t].line, 1, HeadLen(loc[t].line))])]
          /\ loc' = [loc EXCEPT ![t] = [@ EXCEPT !.w = gl.out, !.nwrite = @ + 1]]
          /\ Goto(t, "gl_write2")
  /\ UNCHANGED <<flag, level, mu, gl, broken, proc, op, ncalls, lastSet>>

\* the Write call completes: the writer takes the remaining bytes
GlWriteEnd(t) ==
  /\ proc.alive
  /\ pc[t] = "gl_write2"
  /\ sink' = [sink EXCEPT ![loc[t].w] =
        Append(@, [id |-> loc[t].id, by |-> t, part |-> 2,
                   bytes |-> SubSeq(loc[t].line, HeadLen(loc[t].line) + 1,
                                    Len(loc[t].line))])]
  /\ Goto(t, "gl_unlock")
  /\ UNCHANGED <<flag, level, mu, gl, broken, proc, op, loc, ncalls, lastSet>>

\* a variant of GlUnlock: Logger.Output drops the result as format does and
\* returns nil
GlUnlockDropsError(t) ==
  /\ proc.alive
  /\ pc[t] = "gl_unlock"
  /\ gl' = [gl EXCEPT !.mu = 0]
  /\ IF op[t].kind = "Output"
     THEN /\ loc' = [loc EXCEPT ![t] = [@ EXCEPT !.ret = "nil", !.outcome = "returned"]]
          /\ Goto(t, "idle")
     ELSE /\ loc' = loc
          /\ Goto(t, AfterEmit(op[t].sev))
  /\ UNCHANGED <<flag, level, mu, sink, broken, proc, op, ncalls, lastSet>>

\* l.l.Output returns: Logger.Output returns its result (log.go:124),
\* Logger.format drops it (log.go:120)
GlUnlock(t) ==
  /\ proc.alive
  /\ pc[t] = "gl_unlock"
  /\ gl' = [gl EXCEPT !.mu = 0]
  /\ IF op[t].kind = "Output"
     THEN /\ loc' = [loc EXCEPT ![t] = [@ EXCEPT !.ret = IF loc[t].err THEN "error" ELSE "nil",
                                                 !.outcome = "returned"]]
          /\ Goto(t, "idle")
     ELSE /\ loc' = loc
          /\ Goto(t, AfterEmit(op[t].sev))
  /\ UNCHANGED <<flag, level, mu, sink, broken, proc, op, ncalls, lastSet>>

(***************************************************************************)
(* The end of a logging call.                                              *)
(***************************************************************************)
\* os.Exit(1), log.go:157: the process ends, no deferred call runs
Exit(t) ==
  /\ proc.alive
  /\ pc[t] = "exit"
  /\ proc' = [alive |-> FALSE, code |-> 1]
  /\ Goto(t, "exited")
  /\ UNCHANGED <<flag, level, mu, gl, sink, broken, op, loc, ncalls, lastSet>>

\* a variant of Panic: the decorated text is the panic value
PanicDecorated(t) ==
  /\ proc.alive
  /\ pc[t] = "panic"
  /\ loc' = [loc EXCEPT ![t] = [@ EXCEPT !.panicking = TRUE,
                 !.payload = formatText(op[t].sev, loc[t].s, flag)]]
  /\ Goto(t, "unlock")
  /\ UNCHANGED <<flag, level, mu, gl, sink, broken, proc, op, ncalls, lastSet>>

\* panic(s), log.go:185: the deferred Unlock runs next
Panic(t) ==
  /\ proc.alive
  /\ pc[t] = "panic"
  /\ loc' = [loc EXCEPT ![t] = [@ EXCEPT !.panicking = TRUE, !.payload = loc[t].s]]
  /\ Goto(t, "unlock")
  /\ UNCHANGED <<flag, level, mu, gl, sink, broken, proc, op, ncalls, lastSet>>

\* a variant of Unlock: the Unlock is not deferred, a panic skips it
UnlockNotDeferred(t) ==
  /\ proc.alive
  /\ pc[t] = "unlock"
  /\ IF loc[t].panicking
     THEN /\ mu' = mu
          /\ loc' = loc
          /\ Goto(t, "propagate")
     ELSE /\ mu' = 0
          /\ loc' = [loc EXCEPT ![t] = [@ EXCEPT !.outcome = "returned"]]
          /\ Goto(t, "idle")
  /\ UNCHANGED <<flag, level, gl, sink, broken, proc, op, ncalls, lastSet>>

\* l.mu.Unlock(), deferred (log.go:129) or explicit (log.go:307); then the
\* call returns, or the panic goes on to the caller
Unlock(t) ==
  /\ proc.alive
  /\ pc[t] = "unlock"
  /\ mu' = 0
  /\ IF loc[t].panicking
     THEN /\ loc' = loc
          /\ Goto(t, "propagate")
     ELSE /\ loc' = [loc EXCEPT ![t] = [@ EXCEPT !.outcome = "returned"]]
          /\ Goto(t, "idle")
  /\ UNCHANGED <<flag, level, gl, sink, broken, proc, op, ncalls, lastSet>>

\* the caller recovers the panic and goes on
Recover(t) ==
  /\ proc.alive
  /\ pc[t] = "propagate"
  /\ loc' = [loc EXCEPT ![t] = [@ EXCEPT !.outcome = "recovered"]]
  /\ Goto(t, "idle")
  /\ UNCHANGED <<flag, level, mu, gl, sink, broken, proc, op, ncalls, lastSet>>

\* nobody recovers it: the Go runtime ends the process with status 2
Crash(t) ==
  /\ proc.alive
  /\ pc[t] = "propagate"
  /\ proc' = [alive |-> FALSE, code |-> 2]
  /\ Goto(t, "crashed")
  /\ UNCHANGED <<flag, level, mu, gl, sink, broken, op, loc, ncalls, lastSet>>


(***************************************************************************)
(* The configuration accessors, log.go:103-106 and 304-340.                *)
(***************************************************************************)
\* v = l.flag, log.go:306
Flags(t) ==
  /\ proc.alive
  /\ pc[t] = "flags"
  /\ loc' = [loc EXCEPT ![t] = [@ EXCEPT !.v = flag]]
  /\ Goto(t, "unlock")
  /\ UNCHANGED <<flag, level, mu, gl, sink, broken, proc, op, ncalls, lastSet>>

\* a variant of SetFlags: only the standard logger's copy is set later on,
\* the assignment l.flag = flag is missing
SetFlagsOnlyGl(t) ==
  /\ proc.alive
  /\ pc[t] = "setflags"
  /\ lastSet' = [lastSet EXCEPT !.flag = op[t].n]
  /\ Goto(t, "gl_setflags")
  /\ UNCHANGED <<flag, level, mu, gl, sink, broken, proc, op, loc, ncalls>>

\* l.flag = flag, log.go:314
SetFlags(t) ==
  /\ proc.alive
  /\ pc[t] = "setflags"
  /\ flag' = op[t].n
  /\ lastSet' = [lastSet EXCEPT !.flag = op[t].n]
  /\ Goto(t, "gl_setflags")
  /\ UNCHANGED <<level, mu, gl, sink, broken, proc, op, loc, ncalls>>

\* a variant of GlSetFlags: the standard logger's flags are left as they were
GlSetFlagsDropped(t) ==
  /\ proc.alive
  /\ pc[t] = "gl_setflags"
  /\ gl.mu = 0
  /\ Goto(t, "unlock")
  /\ UNCHANGED <<flag, level, mu, gl, sink, broken, proc, op, loc, ncalls, lastSet>>

\* l.l.SetFlags(flag), log.go:315, under the standard logger's mutex
GlSetFlags(t) ==
  /\ proc.alive
  /\ pc[t] = "gl_setflags"
  /\ gl.mu = 0
  /\ gl' = [gl EXCEPT !.flag = op[t].n]
  /\ Goto(t, "unlock")
  /\ UNCHANGED <<flag, level, mu, sink, broken, proc, op, loc, ncalls, lastSet>>

\* a variant of Level: the call returns the value with l.mu still held
LevelNoUnlock(t) ==
  /\ proc.alive
  /\ pc[t] = "level"
  /\ loc' = [loc EXCEPT ![t] = [@ EXCEPT !.v = level, !.outcome = "returned"]]
  /\ Goto(t, "idle")
  /\ UNCHANGED <<flag, level, mu, gl, sink, broken, proc, op, ncalls, lastSet>>

\* v = l.level, log.go:320
Level(t) ==
  /\ proc.alive
  /\ pc[t] = "level"
  /\ loc' = [loc EXCEPT ![t] = [@ EXCEPT !.v = level]]
  /\ Goto(t, "unlock")
  /\ UNCHANGED <<flag, level, mu, gl, sink, broken, proc, op, ncalls, lastSet>>

\* l.level = level, log.go:330
SetLevel(t) ==
  /\ proc.alive
  /\ pc[t] = "setlevel"
  /\ level' = op[t].n
  /\ lastSet' = [lastSet EXCEPT !.level = op[t].n]
  /\ Goto(t, "unlock")
  /\ UNCHANGED <<flag, mu, gl, sink, broken, proc, op, loc, ncalls>>

\* a variant of SetOutput: the call returns and the writer stays
SetOutputDropped(t) ==
  /\ proc.alive
  /\ pc[t] = "gl_cfg"
  /\ op[t].kind = "SetOutput"
  /\ gl.mu = 0
  /\ lastSet' = [lastSet EXCEPT !.out = op[t].w]
  /\ loc' = [loc EXCEPT ![t] = [@ EXCEPT !.outcome = "returned"]]
  /\ Goto(t, "idle")
  /\ UNCHANGED <<flag, level, mu, gl, sink, broken, proc, op, ncalls>>

\* l.l.SetOutput(w), log.go:105, under the standard logger's mutex only
SetOutput(t) ==
  /\ proc.alive
  /\ pc[t] = "gl_cfg"
  /\ op[t].kind = "SetOutput"
  /\ gl.mu = 0
  /\ gl' = [gl EXCEPT !.out = op[t].w]
  /\ lastSet' = [lastSet EXCEPT !.out = op[t].w]
  /\ loc' = [loc EXCEPT ![t] = [@ EXCEPT !.outcome = "returned"]]
  /\ Goto(t, "idle")
  /\ UNCHANGED <<flag, level, mu, sink, broken, proc, op, ncalls>>

\* l.l.Prefix(), log.go:335
Prefix(t) ==
  /\ proc.alive
  /\ pc[t] = "gl_cfg"
  /\ op[t].kind = "Prefix"
  /\ gl.mu = 0
  /\ loc' = [loc EXCEPT ![t] = [@ EXCEPT !.p = gl.prefix, !.outcome = "returned"]]
  /\ Goto(t, "idle")
  /\ UNCHANGED <<flag, level, mu, gl, sink, broken, proc, op, ncalls, lastSet>>

\* l.l.SetPrefix(prefix), log.go:339
SetPrefix(t) ==
  /\ proc.alive
  /\ pc[t] = "gl_cfg"
  /\ op[t].kind = "SetPrefix"
  /\ gl.mu = 0
  /\ gl' = [gl EXCEPT !.prefix = op[t].str]
  /\ lastSet' = [lastSet EXCEPT !.prefix = op[t].str]
  /\ loc' = [loc EXCEPT ![t] = [@ EXCEPT !.outcome = "returned"]]
  /\ Goto(t, "idle")
  /\ UNCHANGED <<flag, level, mu, sink, broken, proc, op, ncalls>>

Next ==
  \E t \in Threads :
     \/ Call(t)
     \/ Lock(t)
     \/ Check(t)
     \/ format(t)
     \/ GlLock(t)
     \/ GlWrite(t)
     \/ GlWriteEnd(t)
     \/ GlUnlock(t)
     \/ Exit(t)
     \/ Panic(t)
     \/ Unlock(t)
     \/ Recover(t)
     \/ Crash(t)
     \/ Flags(t)
     \/ SetFlags(t)
     \/ GlSetFlags(t)
     \/ Level(t)
     \/ SetLevel(t)
     \/ SetOutput(t)
     \/ Prefix(t)
     \/ SetPrefix(t)

Spec == Init /\ [][Next]_vars

\* a step of thread t inside a call, or of its caller after a panic
Step(t) ==
  \/ Lock(t)
  \/ Check(t)
  \/ format(t)
  \/ GlLock(t)
  \/ GlWrite(t)
  \/ GlWriteEnd(t)
  \/ GlUnlock(t)
  \/ Exit(t)
  \/ Panic(t)
  \/ Unlock(t)
  \/ Recover(t)
  \/ Crash(t)
  \/ Flags(t)
  \/ SetFlags(t)
  \/ GlSetFlags(t)
  \/ Level(t)
  \/ SetLevel(t)
  \/ SetOutput(t)
  \/ Prefix(t)
  \/ SetPrefix(t)

\* the runs on writers that may fail
SpecFault == InitFault /\ [][Next]_vars

\* the runs of one call on every Logger New can make
NextNew == \E t \in Threads : CallFirst(t) \/ Step(t)

SpecNew == InitNew /\ [][NextNew]_vars

\* the runs that follow the writer through SetOutput
NextSinks ==
  \E t \in Threads :
     \/ CallSinks(t)
     \/ Lock(t)
     \/ Check(t)
     \/ format(t)
     \/ GlLock(t)
     \/ GlWrite(t)
     \/ GlWriteEnd(t)
     \/ GlUnlock(t)
     \/ Unlock(t)
     \/ SetOutput(t)

SpecSinks == Init /\ [][NextSinks]_vars

\* the scheduler lets every thread that can take a step take one, and a
\* Write call returns; a panic is recovered or ends the process; a thread
\* need not call again
SpecFair == Spec /\ \A t \in Threads : WF_vars(Step(t))


(***************************************************************************)
(* What the writers received, per call.                                    *)
(***************************************************************************)
RECURSIVE Flatten(_)
Flatten(chunks) ==
  IF chunks = <<>> THEN <<>> ELSE Head(chunks).bytes \o Flatten(Tail(chunks))

\* the bytes call id wrote to writer w
WrittenBy(id, w) == Flatten(SelectSeq(sink[w], LAMBDA c : c.id = id))

\* the Write calls call id made on writer w that went through: one per
\* last-part chunk
WritesBy(id, w) == Len(SelectSeq(sink[w], LAMBDA c : c.id = id /\ c.part = 2))

\* call id wrote exactly one line, to one writer: one Write call whose
\* bytes end the line with a newline
OneLine(id) ==
  \E w \in Sinks :
     /\ WritesBy(id, w) = 1
     /\ Len(SelectSeq(sink[w], LAMBDA c : c.id = id)) = 2
     /\ WrittenBy(id, w)[Len(WrittenBy(id, w))] = "\n"
     /\ \A w2 \in Sinks \ {w} : WrittenBy(id, w2) = <<>>

\* call id wrote nothing
NoLine(id) == \A w \in Sinks : WrittenBy(id, w) = <<>>

\* thread t is in a logging call, past the emit attempt, l.mu still held
PastEmit(t) ==
  /\ op[t].kind = "log"
  /\ pc[t] \in {"exit", "panic", "unlock", "exited"}
  /\ mu = t

(***************************************************************************)
(* C1: for every severity S, threshold T in 0..5 and variant, a logging    *)
(* call at S writes exactly one line to the sink if T >= S and nothing if  *)
(* T < S.                                                                  *)
(***************************************************************************)
C1_EmitIffThreshold ==
  \A t \in Threads :
     (PastEmit(t) /\ level \in LevelFatal..LevelDebug) =>
        IF level >= op[t].sev THEN OneLine(loc[t].id) ELSE NoLine(loc[t].id)

\* a Warnln call made at threshold Warn, set by SetLevel, has written its line
C1_Witness ==
  \E t \in Threads :
     /\ PastEmit(t)
     /\ op[t].sev = LevelWarn /\ op[t].variant = "ln"
     /\ level = LevelWarn /\ lastSet.level = LevelWarn /\ loc[t].id = 2
     /\ OneLine(loc[t].id)


(***************************************************************************)
(* C2: concurrent callers on one Logger each get one complete line; no     *)
(* two lines' bytes are interleaved, whatever the order of the lines: in   *)
(* every writer the bytes of a Write call are followed at once by the rest *)
(* of that call's bytes, and a call that has written finds exactly its own *)
(* line there.                                                             *)
(***************************************************************************)
\* thread t's Write call has completed and its call is not over
Wrote(t) ==
  /\ pc[t] \in {"gl_unlock", "exit", "panic", "unlock", "propagate", "exited", "crashed"}
  /\ loc[t].nwrite = 1

C2_NoInterleaving ==
  /\ \A w \in Sinks : \A i \in 1..Len(sink[w]) :
        IF sink[w][i].part = 1
        THEN IF i = Len(sink[w])
             THEN pc[sink[w][i].by] = "gl_write2" /\ loc[sink[w][i].by].id = sink[w][i].id
             ELSE sink[w][i + 1].part = 2 /\ sink[w][i + 1].id = sink[w][i].id
        ELSE i > 1 /\ sink[w][i - 1].part = 1 /\ sink[w][i - 1].id = sink[w][i].id
  /\ \A t \in Threads :
        Wrote(t) =>
           /\ OneLine(loc[t].id)
           /\ WrittenBy(loc[t].id, loc[t].w) = loc[t].line

\* two callers were in their logging calls at the same time and the writer
\* holds the two complete lines: the call that started second wrote first
C2_Witness ==
  \E w \in Sinks :
     /\ Len(sink[w]) = 4
     /\ sink[w][1].id = 2 /\ sink[w][3].id = 1
     /\ sink[w][1].by # sink[w][3].by
     /\ \A t \in Threads : op[t].kind = "log" /\ Wrote(t) /\ OneLine(loc[t].id)

(***************************************************************************)
(* C3: a Fatal call ends the process with a non-zero status whatever the   *)
(* threshold and whether or not the message was emitted; it ends it after  *)
(* the emit attempt, it never returns, and no step of the process follows  *)
(* the end.                                                                *)
(***************************************************************************)
C3_FatalTerminates ==
  /\ \A t \in Threads :
        (op[t].kind = "log" /\ op[t].sev = LevelFatal) =>
           /\ pc[t] \in {"lock", "check", "format", "gl_lock", "gl_write", "gl_write2",
                         "gl_unlock", "exit", "exited"}
           /\ pc[t] = "exited" =>
                 /\ ~proc.alive
                 /\ proc.code # 0
                 /\ loc[t].decided
                 /\ loc[t].emit = (level >= LevelFatal)
                 /\ IF loc[t].emit THEN OneLine(loc[t].id) ELSE NoLine(loc[t].id)
  /\ ~proc.alive => ~ENABLED Next

\* a Fatalf call at threshold Fatal has written its line and ended the process
C3_Witness ==
  \E t \in Threads :
     /\ op[t].kind = "log" /\ op[t].sev = LevelFatal /\ op[t].variant = "f"
     /\ pc[t] = "exited"
     /\ level = LevelFatal
     /\ OneLine(loc[t].id)
     /\ proc = [alive |-> FALSE, code |-> 1]

(***************************************************************************)
(* C4: a Panic call raises its failure at every threshold, after the emit  *)
(* attempt, and the failure carries the message built from the arguments,  *)
(* not the decorated text.                                                 *)
(***************************************************************************)
C4_PanicPropagates ==
  \A t \in Threads :
     (op[t].kind = "log" /\ op[t].sev = LevelPanic) =>
        /\ pc[t] = "idle" => loc[t].outcome = "recovered"
        /\ pc[t] \in {"propagate", "idle", "crashed"} =>
              /\ loc[t].panicking
              /\ loc[t].decided
              /\ loc[t].emit => OneLine(loc[t].id)
              /\ ~loc[t].emit => NoLine(loc[t].id)
              /\ loc[t].payload = Message(op[t])
        /\ (pc[t] = "unlock" /\ HasBit(flag, Llabel)) =>
              loc[t].payload # formatText(LevelPanic, Message(op[t]), flag)

\* at threshold Fatal, with the label flag set, a Panic call has emitted
\* nothing and its failure carries "x"
C4_Witness ==
  \E t \in Threads :
     /\ op[t].kind = "log" /\ op[t].sev = LevelPanic /\ op[t].variant = "plain"
     /\ pc[t] = "propagate"
     /\ level = LevelFatal /\ HasBit(flag, Llabel)
     /\ NoLine(loc[t].id)
     /\ loc[t].payload = <<"x">>

(***************************************************************************)
(* C5: the lock is released before a Panic call's failure reaches the      *)
(* caller, and more generally no thread holds the lock once its call has   *)
(* returned or propagated; a call made after a recovered Panic completes.  *)
(***************************************************************************)
C5_LockReleased ==
  \A t \in Threads : pc[t] \in {"idle", "propagate", "crashed"} => mu # t

\* after thread t recovered the failure of its Panic call, a later call that
\* takes the lock has returned
C5_Witness ==
  \E t, u \in Threads :
     /\ op[t].kind = "log" /\ op[t].sev = LevelPanic
     /\ pc[t] = "idle" /\ loc[t].outcome = "recovered"
     /\ op[u].kind \in {"log", "SetFlags"}
     /\ loc[u].id > loc[t].id
     /\ pc[u] = "idle" /\ loc[u].outcome = "returned"
     /\ mu = 0


(***************************************************************************)
(* C6: SetLevel(v) faults for every v outside 0..5, below 0 as well as     *)
(* above 5, and succeeds for every v in 0..5.                              *)
(***************************************************************************)
C6_SetLevelFaults ==
  \A t \in Threads :
     op[t].kind = "SetLevel" =>
        IF op[t].n \in 0..5
        THEN /\ pc[t] \in {"lock", "setlevel", "unlock", "idle"}
             /\ pc[t] = "idle" => loc[t].outcome = "returned"
        ELSE /\ pc[t] \in {"propagate", "crashed", "idle"}
             /\ pc[t] = "idle" => loc[t].outcome = "recovered"

(***************************************************************************)
(* C7: in every reachable state the threshold is one of 0, 1, 2, 3, 4, 5.  *)
(***************************************************************************)
C7_ThresholdInRange == level \in 0..5

(***************************************************************************)
(* C8: a getter returns the argument of the latest setter of its field     *)
(* (Flags after SetFlags, Level after SetLevel, Prefix after SetPrefix),   *)
(* and the state a setter leaves is its argument, so that repeating the    *)
(* setter changes nothing.                                                 *)
(***************************************************************************)
C8_Step(t) ==
  /\ (pc[t] = "flags" /\ pc'[t] = "unlock") => loc'[t].v = lastSet.flag
  /\ (pc[t] = "level" /\ pc'[t] = "unlock") => loc'[t].v = lastSet.level
  /\ (pc[t] = "gl_cfg" /\ op[t].kind = "Prefix" /\ pc'[t] = "idle") =>
        loc'[t].p = lastSet.prefix
  /\ (pc[t] = "gl_setflags" /\ pc'[t] = "unlock") =>
        (flag' = op[t].n /\ gl'.flag = op[t].n /\ lastSet'.flag = op[t].n)
  /\ (pc[t] = "setlevel" /\ pc'[t] = "unlock") =>
        (level' = op[t].n /\ lastSet'.level = op[t].n)
  /\ (pc[t] = "gl_cfg" /\ op[t].kind = "SetPrefix" /\ pc'[t] = "idle") =>
        (gl'.prefix = op[t].str /\ lastSet'.prefix = op[t].str)

C8_RoundTrip == [][\A t \in Threads : C8_Step(t)]_vars

\* Flags() has returned Lcolor, the argument of the SetFlags call before it
C8_Witness ==
  \E t, u \in Threads :
     /\ op[u].kind = "SetFlags" /\ op[u].n = Lcolor
     /\ pc[u] = "idle" /\ loc[u].outcome = "returned"
     /\ op[t].kind = "Flags" /\ loc[t].id > loc[u].id
     /\ pc[t] = "idle" /\ loc[t].outcome = "returned"
     /\ loc[t].v = Lcolor

(***************************************************************************)
(* C9: decoration without color.  With the label bit unset the text handed *)
(* to the standard logger is the message unchanged, also when the color    *)
(* bit is set alone; with the label bit set and the color bit unset it is  *)
(* "[" + the 5-character label + "] " + message, "[WARN ] x" for Warn and  *)
(* "x".                                                                    *)
(***************************************************************************)
\* the labels as the claim spells them
Label5(sev) ==
  CASE sev = 0 -> <<"F", "A", "T", "A", "L">>
    [] sev = 1 -> <<"P", "A", "N", "I", "C">>
    [] sev = 2 -> <<"E", "R", "R", "O", "R">>
    [] sev = 3 -> <<"W", "A", "R", "N", " ">>
    [] sev = 4 -> <<"I", "N", "F", "O", " ">>
    [] sev = 5 -> <<"D", "E", "B", "U", "G">>

\* thread t has decorated its message and holds l.mu
Handed(t) ==
  /\ op[t].kind = "log"
  /\ pc[t] \in {"gl_lock", "gl_write", "gl_write2", "gl_unlock"}
  /\ mu = t

C9_PlainDecoration ==
  \A t \in Threads :
     Handed(t) =>
        /\ ~HasBit(flag, Llabel) => loc[t].text = loc[t].s
        /\ (HasBit(flag, Llabel) /\ ~HasBit(flag, Lcolor)) =>
              /\ loc[t].text = <<"[">> \o Label5(op[t].sev) \o <<"]", " ">> \o loc[t].s
              /\ (op[t].sev = 3 /\ loc[t].s = <<"x">>) =>
                    loc[t].text = <<"[", "W", "A", "R", "N", " ", "]", " ", "x">>
        /\ loc[t].s = Message(op[t])

\* Warn("x") with the label bit alone hands "[WARN ] x"
C9_Witness ==
  \E t \in Threads :
     /\ Handed(t)
     /\ op[t].sev = LevelWarn /\ op[t].variant = "plain"
     /\ flag = Llabel
     /\ loc[t].text = <<"[", "W", "A", "R", "N", " ", "]", " ", "x">>

(***************************************************************************)
(* C10: decoration with the label and color bits both set.                 *)
(***************************************************************************)
\* the escape sequence of a color code given by its digits
Sgr(digits) == <<ESC, "[">> \o digits \o <<"m">>

\* the color codes as the claim's sources give them
ColorDigits(sev) ==
  CASE sev \in {0, 1, 2} -> <<"3", "1">>
    [] sev = 3 -> <<"3", "3">>
    [] sev = 4 -> <<"3", "6">>
    [] sev = 5 -> <<"3", "2">>

\* C10 as stated: the text is ESC[<color>m[<LABEL>]ESC[0m ESC[37m<message>ESC[0m,
\* the brackets inside the color sequence and its reset
C10_AsStated ==
  \A t \in Threads :
     (Handed(t) /\ HasBit(flag, Llabel) /\ HasBit(flag, Lcolor)) =>
        loc[t].text = Sgr(ColorDigits(op[t].sev)) \o <<"[">> \o Label5(op[t].sev)
                      \o <<"]">> \o Sgr(<<"0">>) \o <<" ">> \o Sgr(<<"3", "7">>)
                      \o loc[t].s \o Sgr(<<"0">>)

\* C10 amended: the text is [ESC[<color>m<LABEL>ESC[0m] ESC[37m<message>ESC[0m,
\* the color sequence and its reset enclose the label inside the brackets
C10_ColorDecoration ==
  \A t \in Threads :
     (Handed(t) /\ HasBit(flag, Llabel) /\ HasBit(flag, Lcolor)) =>
        loc[t].text = <<"[">> \o Sgr(ColorDigits(op[t].sev)) \o Label5(op[t].sev)
                      \o Sgr(<<"0">>) \o <<"]", " ">> \o Sgr(<<"3", "7">>)
                      \o loc[t].s \o Sgr(<<"0">>)

\* Info("x") with both bits set hands [ESC[36mINFO ESC[0m] ESC[37mxESC[0m
C10_Witness ==
  \E t \in Threads :
     /\ Handed(t)
     /\ op[t].sev = LevelInfo /\ op[t].variant = "plain"
     /\ flag = Llabel + Lcolor
     /\ loc[t].text = <<"[", ESC, "[", "3", "6", "m", "I", "N", "F", "O", " ",
                        ESC, "[", "0", "m", "]", " ", ESC, "[", "3", "7", "m", "x",
                        ESC, "[", "0", "m">>


(***************************************************************************)
(* C11: which lock each configuration access holds, and what a logging     *)
(* call can see change between its emit decision and its write.            *)
(***************************************************************************)
\* thread t is in a logging call, between the emit decision and the end of
\* its write
Between(t) ==
  /\ op[t].kind = "log"
  /\ pc[t] \in {"format", "gl_lock", "gl_write", "gl_write2"}

\* thread t reads or writes l.flag, l.level or the standard logger's flags
AtField(t) == pc[t] \in {"flags", "setflags", "gl_setflags", "level", "setlevel"}

\* C11 as stated: every configuration access holds l.mu, so while a thread
\* is between its emit decision and its write no step of another thread
\* changes the flags, the threshold, the prefix or the writer
C11_AsStated ==
  [][\A t \in Threads :
       (Between(t) /\ pc'[t] = pc[t]) =>
          /\ flag' = flag /\ level' = level /\ gl'.flag = gl.flag
          /\ gl'.prefix = gl.prefix /\ gl'.out = gl.out]_vars

\* C11 amended: Flags, SetFlags, Level and SetLevel hold l.mu, so the flags
\* and the threshold do not change between another thread's emit decision
\* and its write; SetOutput, Prefix and SetPrefix hold only the standard
\* logger's mutex, so the prefix and the writer can change after the emit
\* decision, but not while a thread builds and writes its line
C11_LockedConfig ==
  [][/\ \A t \in Threads :
          /\ AtField(t) => mu = t
          /\ (AtField(t) => mu = t)'
          /\ (Between(t) /\ pc'[t] = pc[t]) =>
                (flag' = flag /\ level' = level /\ gl'.flag = gl.flag)
          /\ (pc[t] \in {"gl_write", "gl_write2"} /\ pc'[t] = pc[t]) =>
                (gl.mu = t /\ gl'.prefix = gl.prefix /\ gl'.out = gl.out)]_vars

\* a SetLevel call waits for l.mu while another thread, having decided to
\* emit, has not written yet
C11_Witness ==
  \E t, u \in Threads :
     /\ Between(t) /\ pc[t] = "gl_lock" /\ mu = t
     /\ pc[u] = "lock" /\ op[u].kind = "SetLevel"


(***************************************************************************)
(* C12: SetOutput(w2) takes effect for the lines emitted from then on and  *)
(* is not retroactive: a Write call that starts goes to the writer of the  *)
(* latest SetOutput that has returned (New's writer if there is none) and  *)
(* to no other, and what a writer has received is never changed or taken   *)
(* away, by SetOutput or by any other step.                                *)
(***************************************************************************)
\* a is an initial part of b
IsPrefix(a, b) == Len(a) <= Len(b) /\ SubSeq(b, 1, Len(a)) = a

C12_SetOutputTakesEffect ==
  [][/\ \A w \in Sinks : IsPrefix(sink[w], sink'[w])
     /\ \A t \in Threads :
          /\ (pc[t] = "gl_cfg" /\ op[t].kind = "SetOutput" /\ pc'[t] = "idle") =>
                (gl'.out = op[t].w /\ sink' = sink)
          /\ (pc[t] = "gl_write" /\ pc'[t] = "gl_write2") =>
                /\ loc'[t].w = lastSet.out
                /\ Len(sink'[lastSet.out]) = Len(sink[lastSet.out]) + 1
                /\ \A w \in Sinks \ {lastSet.out} : sink'[w] = sink[w]
          /\ (pc[t] = "gl_write2" /\ pc'[t] = "gl_unlock") =>
                /\ loc[t].w = lastSet.out
                /\ \A w \in Sinks \ {lastSet.out} : sink'[w] = sink[w]]_vars

\* on the standard logger the first call wrote its line to stderr, the
\* second was SetOutput(buf), the third wrote its line to buf: stderr holds
\* the first line and nothing else
C12_Witness ==
  /\ \E u \in Threads :
        /\ op[u].kind = "SetOutput" /\ op[u].w = "buf"
        /\ loc[u].id = 2 /\ pc[u] = "idle"
  /\ gl.out = "buf"
  /\ Len(sink["stderr"]) = 2 /\ WritesBy(1, "stderr") = 1
  /\ Len(sink["buf"]) = 2 /\ WritesBy(3, "buf") = 1


(***************************************************************************)
(* C13: Output(depth, s) bypasses the threshold and the decoration: at     *)
(* every threshold and flag value it hands s itself and depth + 1 to the   *)
(* standard logger, which builds one line from s and makes one Write call, *)
(* without l.mu and without a threshold test; Output returns what the      *)
(* standard logger returned, nil after the write and the error after a     *)
(* failed one.                                                             *)
(***************************************************************************)
C13_OutputPassThrough ==
  \A t \in Threads :
     op[t].kind = "Output" =>
        /\ loc[t].text = op[t].str
        /\ loc[t].depth = op[t].n + 1
        /\ ~loc[t].decided
        /\ mu # t
        /\ loc[t].nwrite <= 1
        /\ pc[t] \in {"gl_write", "gl_write2", "gl_unlock"} =>
              loc[t].line = Line(gl.prefix, gl.flag, op[t].str)
        /\ pc[t] = "idle" =>
              /\ loc[t].outcome = "returned"
              /\ loc[t].nwrite = 1
              /\ IF loc[t].err
                 THEN loc[t].ret = "error" /\ NoLine(loc[t].id)
                 ELSE /\ loc[t].ret = "nil"
                      /\ OneLine(loc[t].id)
                      /\ WrittenBy(loc[t].id, loc[t].w) = loc[t].line

\* at threshold Fatal, set by SetLevel(0), and with the label and color
\* bits set, Output(2, s) has written s and a newline and returned nil
C13_Witness ==
  \E t \in Threads :
     /\ op[t].kind = "Output" /\ pc[t] = "idle"
     /\ level = LevelFatal /\ flag = Llabel + Lcolor /\ gl.flag = Llabel + Lcolor
     /\ loc[t].ret = "nil" /\ loc[t].depth = 3
     /\ WrittenBy(loc[t].id, "buf") = op[t].str \o <<"\n">>


(***************************************************************************)
(* C14: New(out, prefix, flag) makes a Logger with threshold Error (2),    *)
(* whatever its arguments, and with the writer, the prefix and the flags   *)
(* given; the standard logger is New on stderr with an empty prefix and    *)
(* the flags Ldate + Ltime.  On such a Logger, before any other call, a    *)
(* Fatal, Panic or Error call writes its line and a Warn, Info or Debug    *)
(* call writes nothing.                                                    *)
(***************************************************************************)
C14_InitialState ==
  /\ std = [l |-> [mu |-> 0, prefix |-> <<>>, flag |-> Ldate + Ltime, out |-> "stderr"],
            mu |-> 0, flag |-> Ldate + Ltime, level |-> 2]
  /\ ncalls = 0 =>
        /\ level = 2 /\ LevelError = 2
        /\ mu = 0
        /\ flag = lastSet.flag
        /\ gl = [mu |-> 0, prefix |-> lastSet.prefix, flag |-> lastSet.flag,
                 out |-> lastSet.out]
  /\ \A t \in Threads :
        (ncalls = 1 /\ PastEmit(t) /\ op[t].fn = "level") =>
           IF op[t].sev <= LevelError THEN OneLine(1) ELSE NoLine(1)

\* the first call on the standard logger, Error, has written its line to
\* stderr
C14_Witness ==
  \E t \in Threads :
     /\ ncalls = 1 /\ PastEmit(t)
     /\ op[t].fn = "level" /\ op[t].sev = LevelError
     /\ flag = LstdFlags /\ gl.prefix = <<>> /\ gl.out = "stderr"
     /\ WritesBy(1, "stderr") = 1


(***************************************************************************)
(* C15: l.flag and the standard logger's flags are equal whenever no       *)
(* thread holds l.mu, and throughout the locked region of a logging call;  *)
(* a logging call decorates its message and builds its line with that one  *)
(* value.                                                                  *)
(***************************************************************************)
C15_FlagsInSync ==
  /\ mu = 0 => flag = gl.flag
  /\ \A t \in Threads :
        /\ (op[t].kind = "log" /\ mu = t) => flag = gl.flag
        /\ (op[t].kind = "log" /\ pc[t] \in {"gl_write", "gl_write2", "gl_unlock"}) =>
              /\ loc[t].text = formatText(op[t].sev, loc[t].s, flag)
              /\ loc[t].line = Line(gl.prefix, flag, loc[t].text)

\* on the standard logger, after SetFlags(Llabel + Lcolor) by another
\* thread, a logging call has written a line decorated and built with the
\* new flags
C15_Witness ==
  \E t, u \in Threads :
     /\ op[t].kind = "log" /\ pc[t] = "gl_unlock" /\ loc[t].id = 2
     /\ op[u].kind = "SetFlags" /\ op[u].n = Llabel + Lcolor /\ pc[u] = "idle"
     /\ gl.out = "stderr"
     /\ flag = Llabel + Lcolor /\ gl.flag = Llabel + Lcolor


(***************************************************************************)
(* C16: no call blocks for ever.  When every thread that can take a step   *)
(* is let to take one and every Write call returns, a call that has        *)
(* started comes to its end: it returns, or its panic reaches the caller   *)
(* (Panic, SetLevel out of range), or the process has ended (Fatal's       *)
(* os.Exit, or a panic nobody recovered).                                  *)
(***************************************************************************)
\* thread t has a call in progress
Started(t) == pc[t] \notin {"idle", "propagate", "exited", "crashed"}

C16_NoBlocking ==
  \A t \in Threads : Started(t) ~> (~Started(t) \/ ~proc.alive)

\* a logging call waits for l.mu, held by another logging call that is in
\* its Write call
C16_Witness ==
  \E t, u \in Threads :
     /\ proc.alive
     /\ pc[t] = "lock" /\ op[t].kind = "log"
     /\ mu = u /\ op[u].kind = "log" /\ pc[u] = "gl_write2" /\ gl.mu = u


(***************************************************************************)
(* C17: when the Write call of a logging call fails, the call goes on as   *)
(* if it had written: nothing is returned, Error, Warn, Info and Debug     *)
(* return, Panic panics with its undecorated message, Fatal ends the       *)
(* process with status 1; l.mu is released at the end of the call, and no  *)
(* step of the call after the failure changes the flags or the threshold.  *)
(* When the Write call of Output fails, Output returns the error.          *)
(***************************************************************************)
\* where a logging call at severity sev can be once its Write has failed
AfterFault(sev) ==
  CASE sev = LevelFatal -> {"gl_unlock", "exit", "exited"}
    [] sev = LevelPanic -> {"gl_unlock", "panic", "unlock", "propagate", "crashed", "idle"}
    [] OTHER -> {"gl_unlock", "unlock", "idle"}

FaultHandled ==
  \A t \in Threads :
     loc[t].err =>
        /\ loc[t].nwrite = 1
        /\ NoLine(loc[t].id)
        /\ op[t].kind = "log" =>
              /\ loc[t].ret = "none"
              /\ pc[t] \in AfterFault(op[t].sev)
              /\ pc[t] \in {"idle", "propagate", "crashed"} => mu # t
              /\ pc[t] = "idle" =>
                    loc[t].outcome = IF op[t].sev = LevelPanic THEN "recovered"
                                                               ELSE "returned"
              /\ pc[t] \in {"unlock", "propagate", "crashed"} =>
                    (loc[t].panicking <=> op[t].sev = LevelPanic)
              /\ loc[t].panicking => loc[t].payload = Message(op[t])
              /\ pc[t] = "exited" => proc = [alive |-> FALSE, code |-> 1]
        /\ op[t].kind = "Output" =>
              /\ mu # t
              /\ pc[t] \in {"gl_unlock", "idle"}
              /\ pc[t] = "idle" => (loc[t].ret = "error" /\ loc[t].outcome = "returned")

C17_FaultSwallowed ==
  [][/\ FaultHandled
     /\ FaultHandled'
     /\ \A t \in Threads :
          (loc'[t].err /\ pc'[t] # pc[t] /\ pc[t] # "idle") =>
             (flag' = flag /\ level' = level /\ gl'.flag = gl.flag)]_vars

\* an Error call whose Write failed has returned, l.mu is free, nothing was
\* written
C17_Witness ==
  \E t \in Threads :
     /\ op[t].kind = "log" /\ op[t].sev = LevelError
     /\ loc[t].err /\ loc[t].w \in broken
     /\ pc[t] = "idle" /\ loc[t].outcome = "returned" /\ loc[t].ret = "none"
     /\ mu = 0 /\ NoLine(loc[t].id)


C19_Frame ==
  [][\A t \in Threads :
       pc'[t] # pc[t] =>
          /\ op'[t].kind # "SetFlags" => (flag' = flag /\ gl'.flag = gl.flag)
          /\ op'[t].kind # "SetLevel" => level' = level
          /\ op'[t].kind # "SetPrefix" => gl'.prefix = gl.prefix
          /\ op'[t].kind # "SetOutput" => gl'.out = gl.out]_vars

\* the first call on the standard logger, Panic, has written its line and
\* its panic has reached the caller; flags, threshold, prefix and writer
\* are as New left them
C19_Witness ==
  \E t \in Threads :
     /\ op[t].kind = "log" /\ op[t].sev = LevelPanic
     /\ pc[t] = "propagate" /\ ncalls = 1 /\ OneLine(1)
     /\ flag = LstdFlags /\ level = LevelError
     /\ gl = [mu |-> 0, prefix |-> <<>>, flag |-> LstdFlags, out |-> "stderr"]


(***************************************************************************)
(* C20: SetLevel(v) with v above Debug panics before it takes l.mu: the    *)
(* call changes nothing of the Logger, not the threshold, not the lock,    *)
(* not what the writers hold, it does not wait for the lock, and once the  *)
(* caller has recovered the panic the Logger is in the state it was in,    *)
(* from which the calls that follow run as they would have.                *)
(***************************************************************************)
\* thread t's call is a SetLevel out of range above
Faulting(t) == op[t].kind = "SetLevel" /\ op[t].n > 5

\* such a call has panicked, holding no lock
Faulted(t) ==
  Faulting(t) =>
     /\ pc[t] \in {"propagate", "idle", "crashed"}
     /\ mu # t /\ gl.mu # t
     /\ loc[t].panicking /\ loc[t].payload = <<"invalid log level">>
     /\ pc[t] = "idle" => loc[t].outcome = "recovered"

C20_FaultingSetLevel ==
  [][\A t \in Threads :
       /\ Faulted(t)
       /\ Faulted(t)'
       /\ (Faulting(t)' /\ pc'[t] # pc[t]) =>
             /\ UNCHANGED <<flag, level, mu, gl, sink, lastSet>>
             /\ pc[t] = "idle" => (pc'[t] = "propagate" /\ proc' = proc)]_vars

\* SetLevel(6) panicked and was recovered; the Error call made after it has
\* written its line at the threshold New gave
C20_Witness ==
  \E t, u \in Threads :
     /\ op[u].kind = "SetLevel" /\ op[u].n = 6
     /\ loc[u].id = 1 /\ pc[u] = "idle" /\ loc[u].outcome = "recovered"
     /\ op[t].kind = "log" /\ op[t].sev = LevelError /\ loc[t].id = 2
     /\ PastEmit(t) /\ level = LevelError /\ OneLine(2)

====
